---- MODULE Spec2Model ----
(***************************************************************************)
(* bosh-blobs-upgrader: the run of main() over the declared dependencies.  *)
(*                                                                         *)
(* Two revisions of main() are under src/ and both are modelled; the       *)
(* variable `variant` says which one runs:                                 *)
(*   "git"    : src/main.go lines 513-752 (marker read, git status,        *)
(*              credentials check, upload, changelog, commit)              *)
(*   "marker" : src/unnamed/part_002 lines 159-302 (marker read and        *)
(*              write, credentials check, upload)                          *)
(*                                                                         *)
(* A version string is a record [segs, junk]: segs are its dot separated   *)
(* numeric segments as written, junk says that it holds characters no      *)
(* version may hold.  "1.0" is [segs |-> <<1,0>>, junk |-> FALSE], the     *)
(* empty string is [segs |-> <<>>, junk |-> FALSE].                        *)
(***************************************************************************)
EXTENDS Integers, Sequences, FiniteSets, TLC

\* ------------------------------------------------------------------------
\* Bounds of the model
\* ------------------------------------------------------------------------
MaxRuns == 2      \* processes started one after the other on one release dir
MaxLen == 3       \* lines of version-check output in the resolver specification

\* ------------------------------------------------------------------------
\* Version strings and hashicorp/go-version as main() uses it
\* ------------------------------------------------------------------------
Str(s) == [segs |-> s, junk |-> FALSE]
EmptyStr == [segs |-> <<>>, junk |-> FALSE]
JunkStr == [segs |-> <<>>, junk |-> TRUE]

V10 == Str(<<1, 0>>)
V100 == Str(<<1, 0, 0>>)
V11 == Str(<<1, 1>>)
V2 == Str(<<2>>)

\* the nil *Version that NewVersion returns beside its error
NilVersion == [nil |-> TRUE, segments |-> <<>>, original |-> EmptyStr]

\* NewVersion pads the segments it parsed with zeros up to three
PadSegments(s) ==
    IF Len(s) = 1 THEN <<s[1], 0, 0>>
    ELSE IF Len(s) = 2 THEN <<s[1], s[2], 0>>
    ELSE s

\* a mutant of NewVersion: a malformed string parses as version 0
NewVersion_lenient(raw) ==
    IF raw.junk \/ Len(raw.segs) = 0
    THEN [nil |-> FALSE, segments |-> <<0, 0, 0>>, original |-> raw]
    ELSE [nil |-> FALSE, segments |-> PadSegments(raw.segs), original |-> raw]

\* version.NewVersion(raw); the caller drops the error and keeps the pointer
NewVersion(raw) ==
    IF raw.junk \/ Len(raw.segs) = 0
    THEN NilVersion
    ELSE [nil |-> FALSE, segments |-> PadSegments(raw.segs), original |-> raw]

\* lexicographic order of two segment lists of the same length
RECURSIVE SegLess(_, _, _)
SegLess(a, b, i) ==
    IF i > Len(a) THEN FALSE
    ELSE IF a[i] < b[i] THEN TRUE
    ELSE IF a[i] > b[i] THEN FALSE
    ELSE SegLess(a, b, i + 1)

\* latestVersion.LessThan(v) dereferences both pointers
LessThanPanics(v, o) == v.nil \/ o.nil

\* latestVersion.LessThan(v), both non-nil: Compare is 0 when the normalised
\* strings agree, else the segments decide
LessThan(v, o) == v.segments # o.segments /\ SegLess(v.segments, o.segments, 1)

\* The bytes of a version string in the version file: a digit per segment
\* (the versions of this model have one-digit segments), '.' between them,
\* '?' for a string that holds characters no version may hold.
Digit0 == 48
DotByte == 46
NewlineByte == 10
JunkByte == 63

RECURSIVE Join(_, _)
Join(segs, i) ==
    IF i > Len(segs) THEN <<>>
    ELSE IF i = Len(segs) THEN <<Digit0 + segs[i]>>
    ELSE <<Digit0 + segs[i], DotByte>> \o Join(segs, i + 1)

\* a mutant of Bytes: a newline ends the file
Bytes_newline(s) == (IF s.junk THEN <<JunkByte>> ELSE Join(s.segs, 1)) \o <<NewlineByte>>

\* []byte(s)
Bytes(s) == IF s.junk THEN <<JunkByte>> ELSE Join(s.segs, 1)

\* the bytes are digits at the odd places and dots at the even ones
WellFormed(bs) ==
    /\ bs # <<>> => Len(bs) % 2 = 1
    /\ \A i \in 1..Len(bs) :
         IF i % 2 = 1 THEN bs[i] \in Digit0..(Digit0 + 9) ELSE bs[i] = DotByte

\* string(bs), as a version string of this model
String(bs) ==
    IF WellFormed(bs)
    THEN Str([i \in 1..((Len(bs) + 1) \div 2) |-> bs[2 * i - 1] - Digit0])
    ELSE JunkStr

\* strings.TrimSpace on the script's output, seen as its lines: empty lines
\* at both ends go
RECURSIVE TrimLeft(_)
TrimLeft(lines) ==
    IF lines = <<>> THEN <<>>
    ELSE IF Head(lines) = EmptyStr THEN TrimLeft(Tail(lines))
    ELSE lines

RECURSIVE TrimRight(_)
TrimRight(lines) ==
    IF lines = <<>> THEN <<>>
    ELSE IF lines[Len(lines)] = EmptyStr THEN TrimRight(SubSeq(lines, 1, Len(lines) - 1))
    ELSE lines

\* strings.Split(strings.TrimSpace(stdout), "\n"): never an empty list
SplitLines(stdout) ==
    LET t == TrimRight(TrimLeft(stdout))
    IN IF t = <<>> THEN <<EmptyStr>> ELSE t

\* the loop over versionsList from index i on, latest being latestVersion
RECURSIVE ResolveFrom(_, _, _)
ResolveFrom(list, i, latest) ==
    IF i > Len(list) THEN [panic |-> FALSE, v |-> latest]
    ELSE IF list[i] = EmptyStr \/ i = 1 THEN ResolveFrom(list, i + 1, latest)
    ELSE LET v == NewVersion(list[i])
         IN IF LessThanPanics(latest, v) THEN [panic |-> TRUE, v |-> latest]
            ELSE ResolveFrom(list, i + 1, IF LessThan(latest, v) THEN v ELSE latest)

\* the resolver of main(): versionsList, the seed, the loop, and the
\* latestVersion.Original() that follows it (a nil receiver panics there)
Resolve(stdout) ==
    LET versionsList == SplitLines(stdout)
        r == ResolveFrom(versionsList, 1, NewVersion(versionsList[1]))
    IN IF r.panic \/ r.v.nil
       THEN [panic |-> TRUE, v |-> NilVersion]
       ELSE r

\* ------------------------------------------------------------------------
\* The release directory and the outside world
\* ------------------------------------------------------------------------
\* config/blobs/*/resource.yml in the order filepath.Glob returns them
Deps == <<"curl", "zlib">>
NumDeps == Len(Deps)
DepSet == {Deps[i] : i \in 1..NumDeps}

FileNames == {"f1", "f2"}
\* a blob path "<first segment>/<file>" as the pair of its segments
AllPaths == {<<p, f>> : p \in DepSet \cup {"misc"}, f \in FileNames}
NoPath == <<>>

NoSha == "none"
ShaA == "sha256:a"
ShaB == "sha256:b"
\* the digest of a file whose copy stopped part-way
ShaTrunc == "sha256:t"

\* config/blobs.yml at the start of the first run: path -> sha, NoSha when
\* the path is not in the file.  "misc" has no resource.yml.
InitManifests ==
    {m \in [AllPaths -> {NoSha, ShaA, ShaB}] :
        /\ m[<<"curl", "f1">>] = ShaA
        /\ m[<<"curl", "f2">>] \in {NoSha, ShaA}
        /\ m[<<"zlib", "f1">>] \in {NoSha, ShaA}
        /\ m[<<"zlib", "f2">>] = NoSha
        /\ m[<<"misc", "f1">>] = ShaA
        /\ m[<<"misc", "f2">>] = NoSha}

\* the bytes of config/blobs/<pkg>/version at the start of the first run; no
\* bytes stand for a file that does not exist (ReadFile leaves no bytes)
InitMarkers == [DepSet -> {Bytes(EmptyStr), Bytes(V11)}]

\* what a version_check script may print
StdoutChoices ==
    { <<>>,
      <<JunkStr>>,
      <<V10>>,
      <<V10, V11>>,
      <<V11, JunkStr>> }

\* metalink_get: the error main() drops, and what is left in meta4
LocateErrors == {"none", "script", "parse"}
Desc(e, nf, nu, n) == [set |-> TRUE, err |-> e, nfiles |-> nf, nurls |-> nu, name |-> n]
\* a script may print any descriptor; after a parse error meta4 holds the
\* files that were decoded whole before it (none, or some); a script that
\* failed hands no output to Unmarshal, and meta4 stays empty
Descriptors ==
    { Desc("none", 0, 0, "f1"), Desc("none", 2, 1, "f1"), Desc("none", 1, 2, "f1"),
      Desc("none", 1, 0, "f1"), Desc("none", 1, 1, "f1"), Desc("none", 1, 1, "f2"),
      Desc("parse", 0, 0, "f1"), Desc("parse", 1, 1, "f1"), Desc("parse", 2, 1, "f1"),
      Desc("script", 0, 0, "f1") }
NoDescriptor == [set |-> FALSE, err |-> "none", nfiles |-> 0, nurls |-> 0, name |-> "f1"]

NoStdout == [set |-> FALSE, lines |-> <<>>]
NoBlob == [Path |-> NoPath, Sha |-> NoSha]

VARIABLES
    variant,        \* which revision of main() runs
    pc,             \* where main() stands
    run,            \* number of the process, 1..MaxRuns
    exitCode,       \* -1 while running; 0, 1 (os.Exit(1)) or 2 (panic)
    depIdx,         \* index into resourcePaths
    blobs,          \* the Blobs map decoded at startup
    manifest,       \* config/blobs.yml as the bosh commands leave it
    head,           \* config/blobs.yml in the git HEAD commit
    markers,        \* config/blobs/<pkg>/version
    stdoutSeen,     \* output of the version_check script of this dependency
    latestVersion,  \* latestVersion of this dependency
    meta4,          \* meta4 of this dependency
    todo,           \* blobs of this package the range loop has not visited
    b,              \* the blob of the current iteration
    newBlob,        \* newBlob.Sha of the current iteration
    upstream,       \* what each version_check prints (fixed over the runs)
    upstreamSha,    \* digest of each upstream artifact (fixed over the runs)
    log,            \* the external operations of this run, in order
    prev,           \* how the previous run ended: "none", "done", "noop"
    startMarkers,   \* markers when this run started
    fastDeps,       \* dependencies whose marker equalled latestVersion
    decisions,      \* per blob path of this run: "none", "same", "changed"
    rList,          \* resolver specification: the version-check lines
    rPerm,          \* resolver specification: a permutation of rList
    rOut,           \* resolver specification: Resolve(rList)
    rOutPerm,       \* resolver specification: Resolve(rPerm)
    rpc             \* resolver specification: "input" or "resolved"

runVars ==
    <<variant, pc, run, exitCode, depIdx, blobs, manifest, head, markers,
      stdoutSeen, latestVersion, meta4, todo, b, newBlob, upstream, upstreamSha,
      log, prev, startMarkers, fastDeps, decisions>>
resolverVars == <<rList, rPerm, rOut, rOutPerm, rpc>>
vars == <<runVars, resolverVars>>

\* Blobs.Unmarshal: one Blob per key of blobs.yml, Path the key
Unmarshal(m) == {[Path |-> p, Sha |-> m[p]] : p \in {q \in AllPaths : m[q] # NoSha}}

\* v.PackageName = strings.Split(v.Path, "/")[0]
PackageName(blob) == blob.Path[1]

\* fmt.Sprintf("%s/%s", packageName, file.Name)
NewPath(packageName, name) == <<packageName, name>>

Op(op, pkg, rec, path, res) ==
    [op |-> op, pkg |-> pkg, rec |-> rec, path |-> path, res |-> res]

packageName == Deps[depIdx]

\* ------------------------------------------------------------------------
\* The decisions main() takes
\* ------------------------------------------------------------------------
\* a mutant of TooManyFiles: the limit is off by one
TooManyFiles_off(m) == m.nfiles > 2

\* len(meta4.Files) > 1
TooManyFiles(m) == m.nfiles > 1

\* len(file.URLs) > 1
TooManyURLs(m) == m.nurls > 1

\* a mutant of VersionUnchanged: the fast path is never taken
VersionUnchanged_never(currentVersionBytes, latest) == FALSE

\* string(currentVersionBytes) == latestVersion.Original()
VersionUnchanged(currentVersionBytes, latest) == String(currentVersionBytes) = latest.original

\* a mutant of RangeOver: the version file is written while blob records
\* of the package are still to be compared
RangeOver_early(t) == TRUE

\* the range over blobs has gone through every blob record of the package
RangeOver(t) == t = {}

\* a mutant of BlobUnchanged: every blob counts as unchanged
BlobUnchanged_always(oldSha, newSha) == TRUE

\* b.Sha == newBlob.Sha
BlobUnchanged(oldSha, newSha) == oldSha = newSha

\* where main() goes after the dependency at depIdx
AfterDep ==
    IF depIdx < NumDeps THEN "versionCheck"
    ELSE IF variant = "git" THEN "gitStatus" ELSE "creds"

\* the next iteration of the loop over resourcePaths: its locals are fresh
Advance ==
    /\ pc' = AfterDep
    /\ depIdx' = IF depIdx < NumDeps THEN depIdx + 1 ELSE depIdx
    /\ stdoutSeen' = NoStdout
    /\ latestVersion' = NilVersion
    /\ meta4' = NoDescriptor
    /\ todo' = {}
    /\ b' = NoBlob
    /\ newBlob' = NoSha

\* panic(...): the process ends with status 2
Panic ==
    /\ pc' = "fatal"
    /\ exitCode' = 2

disk == <<manifest, head, markers>>
world == <<upstream, upstreamSha>>
history == <<prev, startMarkers, fastDeps, decisions>>
process == <<variant, run, blobs>>
locals == <<stdoutSeen, latestVersion, meta4, todo, b, newBlob>>

\* ------------------------------------------------------------------------
\* The steps of main()
\* ------------------------------------------------------------------------
\* resource.yml is read, the version_check script runs, latestVersion is
\* resolved from its output
VersionCheck ==
    /\ pc = "versionCheck"
    /\ \E outcome \in {"ok", "configErr", "scriptErr"} :
        \/ /\ outcome = "configErr"
           /\ Panic
           /\ UNCHANGED <<log, stdoutSeen, latestVersion, upstream>>
        \/ /\ outcome = "scriptErr"
           /\ log' = Append(log, Op("versionCheck", packageName, NoPath, NoPath, "err"))
           /\ Panic
           /\ UNCHANGED <<stdoutSeen, latestVersion, upstream>>
        \/ /\ outcome = "ok"
           /\ \E stdout \in (IF upstream[packageName].set
                             THEN {upstream[packageName].lines}
                             ELSE StdoutChoices) :
                LET r == Resolve(stdout)
                IN /\ upstream' = [upstream EXCEPT ![packageName] = [set |-> TRUE, lines |-> stdout]]
                   /\ stdoutSeen' = [set |-> TRUE, lines |-> stdout]
                   /\ log' = Append(log, Op("versionCheck", packageName, NoPath, NoPath, "ok"))
                   /\ IF r.panic
                      THEN Panic /\ UNCHANGED latestVersion
                      ELSE /\ latestVersion' = r.v
                           /\ pc' = "locate"
                           /\ UNCHANGED exitCode
    /\ UNCHANGED <<process, disk, history, depIdx, meta4, todo, b, newBlob, upstreamSha>>
    /\ UNCHANGED resolverVars

\* the metalink_get script runs and its output is unmarshalled; both errors
\* are wrapped and dropped; then the two shape checks and meta4.Files[0]
Locate ==
    /\ pc = "locate"
    /\ \E m \in Descriptors :
        /\ meta4' = m
        /\ log' = Append(log, Op("locate", packageName, NoPath, NoPath,
                                 IF m.err = "none" THEN "ok" ELSE "err"))
        /\ IF TooManyFiles(m) \/ m.nfiles = 0 \/ TooManyURLs(m)
           THEN Panic
           ELSE pc' = "marker" /\ UNCHANGED exitCode
    /\ UNCHANGED <<process, disk, world, history, depIdx, stdoutSeen, latestVersion,
                   todo, b, newBlob>>
    /\ UNCHANGED resolverVars

\* the version file is read and compared with latestVersion.Original()
CheckMarker ==
    /\ pc = "marker"
    /\ \E readErr \in BOOLEAN :
        IF readErr
        THEN /\ Panic
             /\ UNCHANGED <<depIdx, locals, fastDeps>>
        ELSE LET currentVersionBytes == markers[packageName]
             IN /\ fastDeps' = IF String(currentVersionBytes) = latestVersion.original
                               THEN fastDeps \cup {packageName}
                               ELSE fastDeps
                /\ IF VersionUnchanged(currentVersionBytes, latestVersion)
                   THEN Advance /\ UNCHANGED exitCode
                   ELSE /\ pc' = "blobs"
                        /\ todo' = {bl \in blobs : PackageName(bl) = packageName}
                        /\ UNCHANGED <<exitCode, depIdx, stdoutSeen, latestVersion, meta4,
                                       b, newBlob>>
    /\ UNCHANGED <<process, disk, world, log, prev, startMarkers, decisions>>
    /\ UNCHANGED resolverVars

\* what can happen inside DownloadFile
DownloadOutcomes == {"ok", "getErr", "createErr", "copyErr", "chmodErr", "hashErr"}

\* DownloadFile(filepath, url) when the upstream artifact has digest content:
\* the error of io.Copy is overwritten by that of os.Chmod, and the digest is
\* taken from the file as it is on disk (sha256sum ends the process itself
\* when it cannot read the file: the caller sees no digest either)
DownloadFile(outcome, content) ==
    IF outcome \in {"getErr", "createErr", "chmodErr", "hashErr"}
    THEN [err |-> TRUE, Sha |-> NoSha]
    ELSE IF outcome = "copyErr"
    THEN [err |-> FALSE, Sha |-> ShaTrunc]
    ELSE [err |-> FALSE, Sha |-> content]

\* one iteration of the range over blobs for a blob of this package, up to
\* the comparison of the digests
Download ==
    /\ pc = "blobs"
    /\ ~RangeOver(todo)
    /\ \E bl \in todo :
        IF meta4.nurls = 0
        THEN \* file.URLs[0]: index out of range
             /\ Panic
             /\ UNCHANGED <<log, todo, b, newBlob, upstreamSha, decisions>>
        ELSE \E outcome \in DownloadOutcomes :
             \E content \in (IF upstreamSha[packageName] # NoSha
                             THEN {upstreamSha[packageName]}
                             ELSE {ShaA, ShaB}) :
                LET got == DownloadFile(outcome, content)
                    res == IF got.err THEN "err"
                           ELSE IF outcome = "copyErr" THEN "partial" ELSE "ok"
                IN /\ log' = Append(log, Op("download", packageName, bl.Path, NoPath, res))
                   /\ upstreamSha' = [upstreamSha EXCEPT ![packageName] = content]
                   /\ IF got.err
                      THEN /\ Panic
                           /\ UNCHANGED <<todo, b, newBlob, decisions>>
                      ELSE /\ newBlob' = got.Sha
                           /\ todo' = todo \ {bl}
                           /\ decisions' = [decisions EXCEPT ![bl.Path] =
                                              IF bl.Sha = got.Sha THEN "same" ELSE "changed"]
                           /\ IF BlobUnchanged(bl.Sha, got.Sha)
                              THEN UNCHANGED <<pc, exitCode, b>>
                              ELSE /\ pc' = "remove"
                                   /\ b' = bl
                                   /\ UNCHANGED exitCode
    /\ UNCHANGED <<process, disk, upstream, prev, startMarkers, fastDeps, depIdx,
                   stdoutSeen, latestVersion, meta4>>
    /\ UNCHANGED resolverVars

\* boshRemoveBlob(b.Path, releaseDir)
Remove ==
    /\ pc = "remove"
    /\ \E ok \in BOOLEAN :
        /\ log' = Append(log, Op("remove", packageName, b.Path, b.Path,
                                 IF ok THEN "ok" ELSE "err"))
        /\ IF ok
           THEN /\ manifest' = [manifest EXCEPT ![b.Path] = NoSha]
                /\ pc' = "add"
                /\ UNCHANGED exitCode
           ELSE Panic /\ UNCHANGED manifest
    /\ UNCHANGED <<process, head, markers, world, history, depIdx, locals>>
    /\ UNCHANGED resolverVars

\* boshAddBlob(blobFilePath, newBlob.Path, releaseDir), the end of the iteration
Add ==
    /\ pc = "add"
    /\ \E ok \in BOOLEAN :
        LET path == NewPath(packageName, meta4.name)
        IN /\ log' = Append(log, Op("add", packageName, b.Path, path,
                                    IF ok THEN "ok" ELSE "err"))
           /\ IF ok
              THEN /\ manifest' = [manifest EXCEPT ![path] = newBlob]
                   /\ pc' = "blobs"
                   /\ b' = NoBlob
                   /\ UNCHANGED exitCode
              ELSE Panic /\ UNCHANGED <<manifest, b>>
    /\ UNCHANGED <<process, head, markers, world, history, depIdx, stdoutSeen,
                   latestVersion, meta4, todo, newBlob>>
    /\ UNCHANGED resolverVars

\* the range over blobs is over; part_002 writes the version file, main.go
\* writes nothing.  ioutil.WriteFile truncates the file when it opens it: an
\* error of the open leaves the file as it was, an error of the write leaves
\* it without bytes.  (WriteFile into the directory resource.yml was read
\* from does not end with the not-exist error that part_002 would pass over.)
FinishDep ==
    /\ pc = "blobs"
    /\ RangeOver(todo)
    /\ IF variant = "marker"
       THEN \E outcome \in {"ok", "openErr", "writeErr"} :
            /\ log' = Append(log, Op("writeMarker", packageName, NoPath, NoPath,
                                     IF outcome = "ok" THEN "ok" ELSE "err"))
            /\ IF outcome = "ok"
               THEN /\ markers' = [markers EXCEPT ![packageName] =
                                       Bytes(latestVersion.original)]
                    /\ Advance
                    /\ UNCHANGED exitCode
               ELSE /\ markers' = IF outcome = "writeErr"
                                  THEN [markers EXCEPT ![packageName] = <<>>]
                                  ELSE markers
                    /\ Panic
                    /\ UNCHANGED <<depIdx, locals>>
       ELSE /\ Advance
            /\ UNCHANGED <<log, markers, exitCode>>
    /\ UNCHANGED <<process, manifest, head, world, history>>
    /\ UNCHANGED resolverVars

\* main.go: blobs.yml is staged and the worktree status decides
GitStatus ==
    /\ pc = "gitStatus"
    /\ \E err \in BOOLEAN :
        IF err
        THEN Panic
        ELSE IF manifest = head
             THEN pc' = "noop" /\ exitCode' = 1
             ELSE pc' = "creds" /\ UNCHANGED exitCode
    /\ UNCHANGED <<process, disk, world, history, log, depIdx, locals>>
    /\ UNCHANGED resolverVars

\* what os.Stat can answer
StatErrors == {"none", "notExist", "other"}

IsNotExist_never(err) == FALSE
\* os.IsNotExist(err)
IsNotExist(err) == err = "notExist"

\* os.Stat of config/private.yml: only the not-exist error stops the run
CheckCreds ==
    /\ pc = "creds"
    /\ \E err \in StatErrors :
        /\ log' = Append(log, Op("creds", "", NoPath, NoPath,
                                 IF err = "none" THEN "ok"
                                 ELSE IF err = "notExist" THEN "err" ELSE "ignored"))
        /\ IF IsNotExist(err)
           THEN Panic
           ELSE pc' = "upload" /\ UNCHANGED exitCode
    /\ UNCHANGED <<process, disk, world, history, depIdx, locals>>
    /\ UNCHANGED resolverVars

\* boshUploadBlobs(releaseDir); part_002 returns after it
Upload ==
    /\ pc = "upload"
    /\ \E ok \in BOOLEAN :
        /\ log' = Append(log, Op("upload", "", NoPath, NoPath, IF ok THEN "ok" ELSE "err"))
        /\ IF ~ok
           THEN Panic
           ELSE IF variant = "git"
                THEN pc' = "commit" /\ UNCHANGED exitCode
                ELSE pc' = "done" /\ exitCode' = 0
    /\ UNCHANGED <<process, disk, world, history, depIdx, locals>>
    /\ UNCHANGED resolverVars

\* main.go: the changelog is written, blobs.yml is staged and committed
Commit ==
    /\ pc = "commit"
    /\ \E outcome \in {"ok", "changelogErr", "commitErr"} :
        \/ /\ outcome = "ok"
           /\ head' = manifest
           /\ pc' = "done"
           /\ exitCode' = 0
        \/ /\ outcome = "changelogErr"
           /\ pc' = "fatal"
           /\ exitCode' = 1
           /\ UNCHANGED head
        \/ /\ outcome = "commitErr"
           /\ Panic
           /\ UNCHANGED head
    /\ UNCHANGED <<process, manifest, markers, world, history, log, depIdx, locals>>
    /\ UNCHANGED resolverVars

\* the program is started again on the same release directory after a run
\* that ended without a fatal error
Restart ==
    /\ pc \in {"done", "noop"}
    /\ run < MaxRuns
    /\ run' = run + 1
    /\ pc' = "versionCheck"
    /\ exitCode' = -1
    /\ depIdx' = 1
    /\ blobs' = Unmarshal(manifest)
    /\ log' = <<>>
    /\ prev' = pc
    /\ startMarkers' = markers
    /\ fastDeps' = {}
    /\ decisions' = [p \in AllPaths |-> "none"]
    /\ UNCHANGED <<variant, disk, world, locals>>
    /\ UNCHANGED resolverVars

ResolverIdle ==
    /\ rList = <<>>
    /\ rPerm = <<>>
    /\ rOut = [panic |-> FALSE, v |-> NilVersion]
    /\ rOutPerm = [panic |-> FALSE, v |-> NilVersion]
    /\ rpc = "idle"

\* main() up to the loop over resourcePaths: blobs.yml is decoded
RunStart(v, m, mk) ==
    /\ variant = v
    /\ pc = "versionCheck"
    /\ run = 1
    /\ exitCode = -1
    /\ depIdx = 1
    /\ manifest = m
    /\ blobs = Unmarshal(m)
    /\ head = m
    /\ markers = mk
    /\ stdoutSeen = NoStdout
    /\ latestVersion = NilVersion
    /\ meta4 = NoDescriptor
    /\ todo = {}
    /\ b = NoBlob
    /\ newBlob = NoSha
    /\ upstream = [d \in DepSet |-> NoStdout]
    /\ upstreamSha = [d \in DepSet |-> NoSha]
    /\ log = <<>>
    /\ prev = "none"
    /\ startMarkers = mk
    /\ fastDeps = {}
    /\ decisions = [p \in AllPaths |-> "none"]

Init ==
    /\ \E v \in {"git", "marker"}, m \in InitManifests, mk \in InitMarkers : RunStart(v, m, mk)
    /\ ResolverIdle

Next ==
    \/ VersionCheck
    \/ Locate
    \/ CheckMarker
    \/ Download
    \/ Remove
    \/ Add
    \/ FinishDep
    \/ GitStatus
    \/ CheckCreds
    \/ Upload
    \/ Commit
    \/ Restart

Spec == Init /\ [][Next]_vars

\* ------------------------------------------------------------------------
\* The resolver alone, on every short list of lines and every permutation
\* ------------------------------------------------------------------------
ResolverStrings == {EmptyStr, JunkStr, V10, V100, V11, V2}
ResolverLists == UNION {[1..n -> ResolverStrings] : n \in 0..MaxLen}
IndexPermutations(n) == {f \in [1..n -> 1..n] : \A i, j \in 1..n : f[i] = f[j] => i = j}
Permuted(list, f) == [i \in 1..Len(list) |-> list[f[i]]]

ResolverInit ==
    /\ RunStart("marker", [p \in AllPaths |-> NoSha], [d \in DepSet |-> EmptyStr])
    /\ rList \in ResolverLists
    /\ \E f \in IndexPermutations(Len(rList)) : rPerm = Permuted(rList, f)
    /\ rOut = [panic |-> FALSE, v |-> NilVersion]
    /\ rOutPerm = [panic |-> FALSE, v |-> NilVersion]
    /\ rpc = "input"

\* the resolver runs on the list, and on the same lines in another order
ResolveLists ==
    /\ rpc = "input"
    /\ rOut' = Resolve(rList)
    /\ rOutPerm' = Resolve(rPerm)
    /\ rpc' = "resolved"
    /\ UNCHANGED <<rList, rPerm>>
    /\ UNCHANGED runVars

SpecResolve == ResolverInit /\ [][ResolveLists]_vars

\* ------------------------------------------------------------------------
\* Claims
\* ------------------------------------------------------------------------
Mutations == {"remove", "add"}

\* the remove-blob and add-blob calls issued while replacing the record at p
RecOps(p) == SelectSeq(log, LAMBDA e : e.op \in Mutations /\ e.rec = p)

\* a string NewVersion accepts, read off the string itself
Parsable(raw) == ~raw.junk /\ Len(raw.segs) > 0
NoParsable(lines) == \A i \in 1..Len(lines) : ~Parsable(lines[i])

\* C1: a dependency whose version marker exists and equals the resolved
\* latest version is skipped: in this run no download, no remove-blob and no
\* add-blob is issued for it, and none of its blob records is compared.
C1_FastPathNoFetch ==
    \A d \in fastDeps :
        /\ \A i \in 1..Len(log) :
             log[i].pkg = d => log[i].op \notin {"download", "remove", "add"}
        /\ \A p \in AllPaths : p[1] = d => decisions[p] = "none"

C1_Witness ==
    /\ pc = "done"
    /\ fastDeps # {}
    /\ \E i \in 1..Len(log) : log[i].op = "download"

\* C2: on the slow path every blob record of the package is decided on its
\* own against the digest just fetched for it: equal digests issue nothing
\* for the record; different digests issue remove(old path) and right after
\* it add(local file, "<packageName>/<fileName>"), and nothing else (a failed
\* call ends the sequence where it fails).
C2_PerRecordDecision ==
    /\ \A p \in AllPaths :
        LET ops == RecOps(p)
        IN /\ decisions[p] \in {"none", "same"} => ops = <<>>
           /\ decisions[p] # "none" =>
                /\ p[1] \in DepSet
                /\ \E c \in blobs : c.Path = p
           /\ decisions[p] = "changed" =>
                /\ Len(ops) <= 2
                /\ Len(ops) >= 1 =>
                     /\ ops[1].op = "remove"
                     /\ ops[1].path = p
                /\ Len(ops) = 2 =>
                     /\ ops[1].res = "ok"
                     /\ ops[2].op = "add"
                     /\ ops[2].path[1] = p[1]
                     /\ (p[1] = packageName /\ meta4.set) =>
                            ops[2].path = <<p[1], meta4.name>>
                /\ b.Path # p => (Len(ops) = 2 /\ ops[2].res = "ok")
    /\ \A i \in 1..Len(log) :
        log[i].op = "add" =>
            /\ i > 1
            /\ log[i - 1].op = "remove"
            /\ log[i - 1].rec = log[i].rec

C2_Witness ==
    /\ pc = "blobs"
    /\ todo = {}
    /\ \E p, q \in AllPaths :
        /\ p[1] = packageName
        /\ q[1] = packageName
        /\ decisions[p] = "same"
        /\ decisions[q] = "changed"
        /\ Len(RecOps(q)) = 2

\* C3: after a run that ended with status 0, a second run with the same
\* upstream versions and artifacts issues no download, no remove-blob or
\* add-blob, no marker write and no upload, leaves every marker as it was
\* and does not end as a run that changed something.
C3_IdempotentRerun ==
    (run > 1 /\ prev = "done") =>
        /\ \A i \in 1..Len(log) :
             log[i].op \notin {"download", "remove", "add", "writeMarker", "upload"}
        /\ markers = startMarkers
        /\ pc # "done"

\* the version main() resolved for dependency d in this run
ResolvedFor(d) == Resolve(upstream[d].lines).v.original

\* C4: when a run ends with status 0 and a blob record was replaced in it
\* (its digest differed from the fetched one), the old path was removed, the
\* new path was added, the marker of the dependency is the resolved version
\* and the run did not report that nothing changed.
C4_ReplacedAtEnd ==
    pc = "done" =>
        \A p \in AllPaths :
            decisions[p] = "changed" =>
                /\ Len(RecOps(p)) = 2
                /\ RecOps(p)[1].op = "remove" /\ RecOps(p)[1].res = "ok"
                /\ RecOps(p)[2].op = "add" /\ RecOps(p)[2].res = "ok"
                /\ String(markers[p[1]]) = ResolvedFor(p[1])

\* C5: a version-check, download, remove-blob or add-blob that fails is the
\* last operation of the run: the run is fatal with a non-zero status and
\* nothing is issued after the failed operation.
C5_FailureAborts ==
    \A i \in 1..Len(log) :
        (log[i].op \in {"versionCheck", "download", "remove", "add"} /\ log[i].res # "ok") =>
            /\ i = Len(log)
            /\ pc = "fatal"
            /\ exitCode \notin {-1, 0}

\* every failure that is reported to main() as an error does end the run
\* (C5 without the download whose copy failed)
ReportedFailureAborts ==
    \A i \in 1..Len(log) :
        (log[i].op # "locate" /\ log[i].res = "err") =>
            /\ i = Len(log)
            /\ pc = "fatal"
            /\ exitCode \notin {-1, 0}

\* the greatest version among the parsable lines, as NewVersion orders them
IsMaxParsable(raw, lines) ==
    /\ \E i \in 1..Len(lines) : lines[i] = raw
    /\ Parsable(raw)
    /\ \A i \in 1..Len(lines) :
         Parsable(lines[i]) =>
            ~SegLess(PadSegments(raw.segs), PadSegments(lines[i].segs), 1)

\* C6: for a list of lines with at least one parsable entry, wherever the
\* unparsable entries stand, the resolver ends without error and returns the
\* greatest of the parsable entries.
C6_MaxOfParsable ==
    (rpc = "resolved" /\ ~NoParsable(rList)) =>
        /\ ~rOut.panic
        /\ IsMaxParsable(rOut.v.original, rList)

\* C7: the resolver gives the same version string for a list of lines and
\* for every permutation of it.
C7_OrderIndependent ==
    rpc = "resolved" =>
        /\ rOut.panic = rOutPerm.panic
        /\ rOut.v.original = rOutPerm.v.original

\* C8: when the version-check output is empty or no line of it parses, the
\* run is fatal with a non-zero status and no artifact-locate call, download,
\* remove-blob or add-blob is made for the dependency.
C8_NoVersionsIsFatal ==
    (stdoutSeen.set /\ NoParsable(stdoutSeen.lines)) =>
        /\ pc = "fatal"
        /\ exitCode \notin {-1, 0}
        /\ \A i \in 1..Len(log) :
             log[i].pkg = packageName =>
                log[i].op \notin {"locate", "download", "remove", "add"}

C8_Witness ==
    /\ stdoutSeen.set
    /\ stdoutSeen.lines = <<JunkStr>>
    /\ depIdx = 2
    /\ pc = "fatal"

\* C9: a descriptor with more than one file, or with one file that has more
\* than one URL, makes the run fatal before any download, remove-blob or
\* add-blob for the dependency.
C9_UnsupportedShapeIsFatal ==
    (meta4.set /\ (meta4.nfiles > 1 \/ (meta4.nfiles = 1 /\ meta4.nurls > 1))) =>
        /\ pc = "fatal"
        /\ exitCode \notin {-1, 0}
        /\ \A i \in 1..Len(log) :
             log[i].pkg = packageName =>
                log[i].op \notin {"download", "remove", "add"}

C9_Witness ==
    /\ meta4.set
    /\ meta4.err = "none"
    /\ meta4.nfiles = 2
    /\ pc = "fatal"

\* C10: when the artifact-locate command fails or its output does not parse,
\* the run is fatal: main() does not go on with what is left in meta4.
C10_LocateErrorIsFatal ==
    (meta4.set /\ meta4.err # "none") => pc = "fatal"

\* C11: a download whose copy of the body failed is reported to main() as an
\* error: it is the last operation of the run, the run is fatal, and the
\* digest of the truncated file is neither compared with a blob record nor
\* added to the manifest.
C11_PartialDownloadIsError ==
    /\ newBlob # ShaTrunc
    /\ \A p \in AllPaths : manifest[p] # ShaTrunc
    /\ \A i \in 1..Len(log) :
         (log[i].op = "download" /\ log[i].res = "partial") =>
            /\ i = Len(log)
            /\ pc = "fatal"

\* the positions of the upload calls in the log of this run
Uploads == {i \in 1..Len(log) : log[i].op = "upload"}

\* a remove-blob or add-blob of this run went through
Mutated == \E i \in 1..Len(log) : log[i].op \in Mutations /\ log[i].res = "ok"

\* C12: the upload is called at most once in a run, after the last
\* dependency was processed and only when a remove-blob or add-blob went
\* through in this run; a run that ends without such a call having gone
\* through has made no upload and ends as the run that changed nothing.
C12_UploadOnlyAfterMutation ==
    /\ Cardinality(Uploads) <= 1
    /\ Uploads # {} =>
         /\ depIdx = NumDeps
         /\ Mutated
    /\ (pc \in {"done", "noop"} /\ ~Mutated) =>
         /\ Uploads = {}
         /\ pc = "noop"

\* C13: the run that found nothing changed ends with status 0, and a status
\* other than 0 is that of a fatal error only.
C13_NoopExitsZero ==
    /\ pc = "noop" => exitCode = 0
    /\ exitCode \notin {-1, 0} => pc = "fatal"

\* the credentials file was found missing in this run
CredsMissing == \E i \in 1..Len(log) : log[i].op = "creds" /\ log[i].res = "err"

\* C14: when config/private.yml does not exist at the time the upload is
\* due, the run is fatal with a non-zero status, the check is the last thing
\* the run does and the upload is not called.
C14_MissingCredsNoUpload ==
    CredsMissing =>
        /\ log[Len(log)].op = "creds"
        /\ pc = "fatal"
        /\ exitCode \notin {-1, 0}
        /\ Uploads = {}

C14_Witness ==
    /\ CredsMissing
    /\ Mutated
    /\ pc = "fatal"

\* the version file of dependency d was written in this run
MarkerWritten(d) ==
    \E i \in 1..Len(log) :
        log[i].op = "writeMarker" /\ log[i].pkg = d /\ log[i].res = "ok"

\* the marker of dependency d has been read and compared in this run
MarkerChecked(d) ==
    \/ \E i \in 1..NumDeps : Deps[i] = d /\ i < depIdx
    \/ d = packageName /\ pc \in {"blobs", "remove", "add"}
    \/ pc \in {"gitStatus", "creds", "upload", "commit", "done", "noop"}

\* C15: the version file that was written with the resolved version V reads
\* back as exactly V; in the run that follows a run of part_002 that ended
\* with status 0, every version file reads as the version resolved again, and
\* a dependency whose marker was compared took the fast path: no download.
C15_MarkerRoundTrip ==
    /\ \A d \in DepSet :
         MarkerWritten(d) => String(markers[d]) = ResolvedFor(d)
    /\ (variant = "marker" /\ run > 1 /\ prev = "done") =>
         \A d \in DepSet :
            /\ String(startMarkers[d]) = ResolvedFor(d)
            /\ MarkerChecked(d) =>
                 /\ d \in fastDeps
                 /\ \A i \in 1..Len(log) :
                      log[i].pkg = d => log[i].op # "download"

\* a version file that the first run wrote (1.0 is in no version file at the
\* start) made the second run take the fast path
C15_Witness ==
    /\ run = 2
    /\ prev = "done"
    /\ "curl" \in fastDeps
    /\ String(startMarkers["curl"]) = V10
    /\ pc = "done"

\* the write of the version file of dependency d failed in this run
MarkerWriteFailed(d) ==
    \E i \in 1..Len(log) :
        log[i].op = "writeMarker" /\ log[i].pkg = d /\ log[i].res = "err"

\* every blob record of package d was compared in this run, and every one
\* that differed was removed and added with success
AllApplied(d) ==
    \A c \in blobs :
        PackageName(c) = d =>
            /\ decisions[c.Path] # "none"
            /\ decisions[c.Path] = "changed" =>
                 /\ Len(RecOps(c.Path)) = 2
                 /\ RecOps(c.Path)[1].res = "ok"
                 /\ RecOps(c.Path)[2].res = "ok"

\* C16: the version file of a dependency is written only when every blob
\* record of its package was compared and every remove-blob and add-blob for
\* it went through; in a run that ends with a fatal error the version file
\* of every dependency the run did not finish is as it was at the start.
C16_MarkerAfterMutations ==
    /\ \A d \in DepSet :
         (MarkerWritten(d) \/ MarkerWriteFailed(d)) => AllApplied(d)
    /\ pc = "fatal" =>
         \A d \in DepSet : ~MarkerWritten(d) => markers[d] = startMarkers[d]

\* C16 as amended: the same, but a run that fails in the write of the
\* version file itself leaves that file as it was or without bytes.
C16_Amended ==
    /\ \A d \in DepSet :
         (MarkerWritten(d) \/ MarkerWriteFailed(d)) => AllApplied(d)
    /\ \A d \in DepSet :
         /\ (~MarkerWritten(d) /\ ~MarkerWriteFailed(d)) => markers[d] = startMarkers[d]
         /\ MarkerWriteFailed(d) => markers[d] \in {startMarkers[d], <<>>}

\* the first dependency was replaced and its version file written, the
\* second one failed in add-blob and has the version file it started with
C16_Witness ==
    /\ pc = "fatal"
    /\ depIdx = 2
    /\ MarkerWritten(Deps[1])
    /\ \E p \in AllPaths : p[1] = Deps[1] /\ decisions[p] = "changed"
    /\ log[Len(log)].op = "add"
    /\ markers[Deps[2]] = startMarkers[Deps[2]]
    /\ markers[Deps[2]] # <<>>

\* the version of dependency d was resolved in this run
VersionChecked(d) ==
    \E i \in 1..Len(log) :
        log[i].op = "versionCheck" /\ log[i].pkg = d /\ log[i].res = "ok"

\* C17: for a dependency whose version file holds the version resolved in
\* this run, the artifact-locate command is not called, so the run cannot
\* end in it or in the shape of its descriptor.
C17_FastPathSkipsLocate ==
    \A d \in DepSet :
        (VersionChecked(d) /\ String(startMarkers[d]) = ResolvedFor(d)) =>
            \A i \in 1..Len(log) : log[i].pkg = d => log[i].op # "locate"

\* the descriptor main() holds has no file, or one file without a URL
EmptyShape == meta4.set /\ (meta4.nfiles = 0 \/ (meta4.nfiles = 1 /\ meta4.nurls = 0))

\* C18: a run that holds a descriptor with no file, or with one file that
\* has no URL, does not go on to the next dependency or to the end of the
\* run with it: it stops with a fatal error.
C18_EmptyShapeIsFatal ==
    [][EmptyShape => (meta4' = meta4 /\ pc' \notin {"versionCheck", "gitStatus", "creds"})]_vars

\* the part of C18 that holds: a descriptor without a file is fatal
NoFileIsFatal == (meta4.set /\ meta4.nfiles = 0) => pc = "fatal"

\* the positions of the calls of DownloadFile for dependency d in this run
Fetches(d) == {i \in 1..Len(log) : log[i].op = "download" /\ log[i].pkg = d}

\* C19: DownloadFile is called at most once for a dependency in a run,
\* however many blob records have its package name.
C19_OneFetchPerDependency ==
    \A d \in DepSet : Cardinality(Fetches(d)) <= 1

\* the log entry at i is a remove-blob that comes right after a download for
\* the same blob record with one of the results in rs, and the record was
\* found changed
RemoveAfterFetch(i, rs) ==
    /\ i > 1
    /\ log[i - 1].op = "download"
    /\ log[i - 1].rec = log[i].rec
    /\ log[i - 1].pkg = log[i].pkg
    /\ log[i - 1].res \in rs
    /\ decisions[log[i].rec] = "changed"

\* C20: every remove-blob of a run comes after a download for that blob
\* record that was completed in the same run and after the comparison that
\* found the record changed, and every add-blob comes after that remove-blob.
C20_MutationAfterCompletedFetch ==
    \A i \in 1..Len(log) :
        /\ log[i].op = "remove" => RemoveAfterFetch(i, {"ok"})
        /\ log[i].op = "add" =>
             /\ i > 2
             /\ log[i - 1].op = "remove"
             /\ log[i - 1].rec = log[i].rec
             /\ RemoveAfterFetch(i - 1, {"ok"})

\* what holds of C20: a download was made and returned without error before
\* every remove-blob, completed or not
FetchedBeforeMutation ==
    \A i \in 1..Len(log) :
        log[i].op = "remove" => RemoveAfterFetch(i, {"ok", "partial"})

\* the positions of the add-blob calls for dependency d in this run
Adds(d) == {i \in 1..Len(log) : log[i].op = "add" /\ log[i].pkg = d}

\* the blob records of package d that were found changed in this run
Replaced(d) == {p \in AllPaths : p[1] = d /\ decisions[p] = "changed"}

\* dependency d is behind the loop over resourcePaths in this run
Processed(d) ==
    \/ \E i \in 1..NumDeps : Deps[i] = d /\ i < depIdx
    \/ pc \in {"gitStatus", "creds", "upload", "commit", "done", "noop"}

\* C21: when more than one blob record of a package differs from the fetched
\* digest, add-blob is called at most once for the package, and not for a
\* path the manifest holds at that moment; once the dependency is processed
\* the manifest holds the new path and none of the replaced old paths.
C21_AddOncePerDependency ==
    \A d \in DepSet :
        Cardinality(Replaced(d)) > 1 =>
            /\ Cardinality(Adds(d)) <= 1
            /\ (pc = "add" /\ packageName = d) =>
                   manifest[NewPath(packageName, meta4.name)] = NoSha
            /\ Processed(d) =>
                 \A i \in Adds(d) :
                    /\ manifest[log[i].path] # NoSha
                    /\ \A q \in Replaced(d) :
                         q # log[i].path => manifest[q] = NoSha

\* what holds of C21 at the end: the manifest has the new path with the
\* digest of the last add-blob and none of the other replaced paths
ReplacedPathsGone ==
    \A d \in DepSet :
        Processed(d) =>
            \A i \in Adds(d) :
                /\ manifest[log[i].path] # NoSha
                /\ \A q \in Replaced(d) :
                     q # log[i].path => manifest[q] = NoSha

\* remove-blob was called for path p in this run
RemoveIssued(p) == \E i \in 1..Len(log) : log[i].op = "remove" /\ log[i].path = p

\* a download of this run returned the digest of a truncated file
PartialFetch == \E i \in 1..Len(log) : log[i].op = "download" /\ log[i].res = "partial"

\* blob record c is of a package without resource.yml, or of a dependency
\* that took the fast path or was not fetched in this run, or has the digest
\* of the upstream artifact
Untouchable(c) ==
    \/ PackageName(c) \notin DepSet
    \/ PackageName(c) \in fastDeps
    \/ Fetches(PackageName(c)) = {}
    \/ c.Sha = upstreamSha[PackageName(c)]

\* C22: remove-blob is called for a blob record only when its package is a
\* dependency that did not take the fast path in this run and its digest
\* differed from the fetched one; every other blob record that the run
\* loaded is in the manifest with the digest it had.
C22_Frame ==
    \A c \in blobs :
        /\ RemoveIssued(c.Path) =>
             /\ PackageName(c) \in DepSet
             /\ PackageName(c) \notin fastDeps
             /\ decisions[c.Path] = "changed"
        /\ Untouchable(c) => manifest[c.Path] = c.Sha

\* what holds of C22: the frame, in the runs where no download returned the
\* digest of a truncated file
FrameOfCompleteFetches == PartialFetch \/ C22_Frame

\* the run ended in the credentials check or in the upload
UploadFailed ==
    /\ pc = "fatal"
    /\ log # <<>>
    /\ log[Len(log)].op \in {"creds", "upload"}
    /\ log[Len(log)].res = "err"

\* C23: when the run ends in the credentials check or in the upload, the
\* version file of a dependency whose blob records were replaced in this run
\* does not hold the version resolved in this run (the next run would take
\* the fast path for it, and the upload would never be made).
C23_NoMarkerBeforeUpload ==
    UploadFailed =>
        \A d \in DepSet :
            Replaced(d) # {} => String(markers[d]) # ResolvedFor(d)

\* no blob record that the run loaded has the package name d
NoRecords(d) == \A c \in blobs : PackageName(c) # d

\* C24: a dependency without a blob record of its package that the run has
\* processed caused no download, remove-blob or add-blob, and its version
\* file holds the version resolved for it.
C24_NoRecordsSetsMarker ==
    \A d \in DepSet :
        (NoRecords(d) /\ Processed(d)) =>
            /\ \A i \in 1..Len(log) :
                 log[i].pkg = d => log[i].op \notin {"download", "remove", "add"}
            /\ String(markers[d]) = ResolvedFor(d)

\* what holds of C24 in both revisions: no download, remove-blob or add-blob
NoRecordsNoFetch ==
    \A d \in DepSet :
        NoRecords(d) =>
            \A i \in 1..Len(log) :
                log[i].pkg = d => log[i].op \notin {"download", "remove", "add"}

====
